---- MODULE Spec2Model ----
(***************************************************************************)
(* ml_matrics: element aggregation (count_elements), the periodic-table    *)
(* heatmap renderers built on it, the prevalence histogram and the         *)
(* space-group utility, as a state machine over the values the functions   *)
(* compute and the matplotlib canvas they draw on.                         *)
(***************************************************************************)
EXTENDS Integers, Sequences, FiniteSets, TLC

VARIABLES
    pandas,     \* which pandas the package runs on: "legacy" (< 2.0) or "strict" (>= 2.0)
    pc,         \* position of the caller: "idle", "call" (arguments bound) or "done"
    op,         \* the call being made: function name and its arguments
    ret,        \* what the call returned or raised
    canvas      \* pyplot state: the figures, their axes and what was drawn on them

vars == <<pandas, pc, op, ret, canvas>>

----------------------------------------------------------------------------
(* Numbers: Python / numpy floats as exact rationals n/d plus inf, -inf, NaN *)

Abs(i) == IF i < 0 THEN -i ELSE i

RECURSIVE GCD(_, _)
GCD(a, b) == IF b = 0 THEN a ELSE GCD(b, a % b)

Fin(n, d) ==
    LET s == IF d < 0 THEN -1 ELSE 1
        g == GCD(Abs(n), Abs(d))
    IN  [k |-> "fin", n |-> (s * n) \div g, d |-> Abs(d) \div g]

Num(i) == [k |-> "fin", n |-> i, d |-> 1]
Zero == Num(0)
One == Num(1)
NaN == [k |-> "nan", n |-> 0, d |-> 1]
PosInf == [k |-> "inf", n |-> 0, d |-> 1]
NegInf == [k |-> "ninf", n |-> 0, d |-> 1]

IsNaN(x) == x.k = "nan"
IsFinite(x) == x.k = "fin"

\* sign of a non-NaN number
Sign(x) ==
    CASE x.k = "inf" -> 1
      [] x.k = "ninf" -> -1
      [] OTHER -> IF x.n > 0 THEN 1 ELSE IF x.n < 0 THEN -1 ELSE 0

\* x < y on floats: every comparison with NaN is False
FLess(x, y) ==
    /\ ~IsNaN(x) /\ ~IsNaN(y)
    /\ CASE x.k = "ninf" -> y.k # "ninf"
         [] x.k = "inf" -> FALSE
         [] y.k = "inf" -> TRUE
         [] y.k = "ninf" -> FALSE
         [] OTHER -> x.n * y.d < y.n * x.d

FGreater(x, y) == FLess(y, x)

\* x == y on floats (NaN equals nothing)
FEq(x, y) == ~IsNaN(x) /\ ~IsNaN(y) /\ x = y

FAdd(x, y) ==
    CASE IsNaN(x) \/ IsNaN(y) -> NaN
      [] x.k = "fin" /\ y.k = "fin" -> Fin(x.n * y.d + y.n * x.d, x.d * y.d)
      [] x.k = "fin" -> y
      [] y.k = "fin" -> x
      [] x.k = y.k -> x
      [] OTHER -> NaN

\* IEEE division as numpy does it for float arrays: x/0 is +-inf, 0/0 is NaN
FDiv(x, y) ==
    CASE IsNaN(x) \/ IsNaN(y) -> NaN
      [] x.k = "fin" /\ y.k = "fin" ->
            IF y.n # 0 THEN Fin(x.n * y.d, x.d * y.n)
            ELSE IF x.n > 0 THEN PosInf ELSE IF x.n < 0 THEN NegInf ELSE NaN
      [] x.k = "fin" -> Zero
      [] y.k = "fin" ->
            IF Sign(x) * (IF y.n < 0 THEN -1 ELSE 1) > 0 THEN PosInf ELSE NegInf
      [] OTHER -> NaN

\* int(x) of a finite number: truncation towards zero
int(x) == IF x.n < 0 THEN -((-x.n) \div x.d) ELSE x.n \div x.d

----------------------------------------------------------------------------
(* Text: a Python str is the sequence of its characters *)

DigitChars == <<"0", "1", "2", "3", "4", "5", "6", "7", "8", "9">>
UpperChars == {"A", "B", "C", "D", "E", "F", "G", "H", "I", "J", "K", "L", "M",
               "N", "O", "P", "Q", "R", "S", "T", "U", "V", "W", "X", "Y", "Z"}
LowerChars == {"a", "b", "c", "d", "e", "f", "g", "h", "i", "j", "k", "l", "m",
               "n", "o", "p", "q", "r", "s", "t", "u", "v", "w", "x", "y", "z"}

IsDigitChar(c) == \E i \in 1..10 : DigitChars[i] = c
DigitVal(c) == (CHOOSE i \in 1..10 : DigitChars[i] = c) - 1

\* str.isdigit(): non-empty and every character a digit
isdigit(t) == Len(t) > 0 /\ \A i \in 1..Len(t) : IsDigitChar(t[i])

\* int(str) of a digit string
RECURSIVE StrToInt(_)
StrToInt(t) ==
    IF Len(t) = 0 THEN 0
    ELSE 10 * StrToInt(SubSeq(t, 1, Len(t) - 1)) + DigitVal(t[Len(t)])

----------------------------------------------------------------------------
(* The element table df_ptable: symbols in atomic-number order *)

Symbols == <<
    <<"H">>, <<"H","e">>, <<"L","i">>, <<"B","e">>, <<"B">>, <<"C">>, <<"N">>,
    <<"O">>, <<"F">>, <<"N","e">>, <<"N","a">>, <<"M","g">>, <<"A","l">>,
    <<"S","i">>, <<"P">>, <<"S">>, <<"C","l">>, <<"A","r">>, <<"K">>,
    <<"C","a">>, <<"S","c">>, <<"T","i">>, <<"V">>, <<"C","r">>, <<"M","n">>,
    <<"F","e">>, <<"C","o">>, <<"N","i">>, <<"C","u">>, <<"Z","n">>,
    <<"G","a">>, <<"G","e">>, <<"A","s">>, <<"S","e">>, <<"B","r">>,
    <<"K","r">>, <<"R","b">>, <<"S","r">>, <<"Y">>, <<"Z","r">>, <<"N","b">>,
    <<"M","o">>, <<"T","c">>, <<"R","u">>, <<"R","h">>, <<"P","d">>,
    <<"A","g">>, <<"C","d">>, <<"I","n">>, <<"S","n">>, <<"S","b">>,
    <<"T","e">>, <<"I">>, <<"X","e">>, <<"C","s">>, <<"B","a">>, <<"L","a">>,
    <<"C","e">>, <<"P","r">>, <<"N","d">>, <<"P","m">>, <<"S","m">>,
    <<"E","u">>, <<"G","d">>, <<"T","b">>, <<"D","y">>, <<"H","o">>,
    <<"E","r">>, <<"T","m">>, <<"Y","b">>, <<"L","u">>, <<"H","f">>,
    <<"T","a">>, <<"W">>, <<"R","e">>, <<"O","s">>, <<"I","r">>, <<"P","t">>,
    <<"A","u">>, <<"H","g">>, <<"T","l">>, <<"P","b">>, <<"B","i">>,
    <<"P","o">>, <<"A","t">>, <<"R","n">>, <<"F","r">>, <<"R","a">>,
    <<"A","c">>, <<"T","h">>, <<"P","a">>, <<"U">>, <<"N","p">>, <<"P","u">>,
    <<"A","m">>, <<"C","m">>, <<"B","k">>, <<"C","f">>, <<"E","s">>,
    <<"F","m">>, <<"M","d">>, <<"N","o">>, <<"L","r">>, <<"R","f">>,
    <<"D","b">>, <<"S","g">>, <<"B","h">>, <<"H","s">>, <<"M","t">>,
    <<"D","s">>, <<"R","g">>, <<"C","n">>, <<"N","h">>, <<"F","l">>,
    <<"M","c">>, <<"L","v">>, <<"T","s">>, <<"O","g">>
>>

\* a function with every entry evaluated once (the same function)
Eval(f) == f @@ <<>>

\* df_ptable.index: the known element symbols
df_ptable_index == {Symbols[i] : i \in 1..Len(Symbols)}

\* df_ptable.reset_index().set_index("atomic_number").symbol as a lookup:
\* Index.map gives NaN for a number the table does not hold
NaNLabel == [t |-> "nan", n |-> 0, s |-> <<>>]
IntLabel(n) == [t |-> "int", n |-> n, s |-> <<>>]
StrLabel(s) == [t |-> "str", n |-> 0, s |-> s]

\* a lookup that counts the table's rows from 0
atomic_number_to_symbol_zero_based(n) ==
    IF n + 1 \in 1..Len(Symbols) THEN StrLabel(Symbols[n + 1]) ELSE NaNLabel

atomic_number_to_symbol(n) ==
    IF n \in 1..Len(Symbols) THEN StrLabel(Symbols[n]) ELSE NaNLabel

----------------------------------------------------------------------------
(* Values a caller can put into elem_values: numbers and strings *)

NumVal(x) == [t |-> "num", x |-> x, s |-> <<>>]
StrVal(s) == [t |-> "str", x |-> Zero, s |-> s]

\* elem_values: a dict (keys -> values) or a list of composition strings
DictInput(m) == [shape |-> "dict", m |-> m, l |-> <<>>]
ListInput(l) == [shape |-> "list", m |-> <<>>, l |-> l]
NoInput == [shape |-> "none", m |-> <<>>, l |-> <<>>]

\* outcomes of a call: a returned value or a raised exception
NoExc == [type |-> "none", msg |-> "", arg |-> NoInput]
Return(v) == [exc |-> NoExc, val |-> v]
Raise(type, msg, arg) == [exc |-> [type |-> type, msg |-> msg, arg |-> arg], val |-> <<>>]
Raised(r) == r.exc.type # "none"

----------------------------------------------------------------------------
(* pymatgen Composition(str).fractional_composition.as_dict() for formulas *)
(* made of element symbols followed by optional integer amounts            *)

\* last index of the run of characters of `chars` that follows position i
RECURSIVE RunEnd(_, _, _)
RunEnd(t, i, chars) ==
    IF i < Len(t) /\ t[i + 1] \in chars THEN RunEnd(t, i + 1, chars) ELSE i

DigitSet == {DigitChars[i] : i \in 1..10}

\* the formula's (element, amount) terms from position i on
RECURSIVE ParseFormula(_, _)
ParseFormula(t, i) ==
    IF i > Len(t) THEN <<>>
    ELSE LET j == RunEnd(t, i, LowerChars)
             k == RunEnd(t, j, DigitSet)
             amt == IF k = j THEN 1 ELSE StrToInt(SubSeq(t, j + 1, k))
         IN  <<[el |-> SubSeq(t, i, j), amt |-> amt]>> \o ParseFormula(t, k + 1)

\* the regular expression of the parser matches terms that start with a capital
RECURSIVE IsFormula(_, _)
IsFormula(t, i) ==
    IF i > Len(t) THEN TRUE
    ELSE /\ t[i] \in UpperChars
         /\ IsFormula(t, RunEnd(t, RunEnd(t, i, LowerChars), DigitSet) + 1)

RECURSIVE AmountOf(_, _)
AmountOf(terms, el) ==
    IF terms = <<>> THEN 0
    ELSE (IF Head(terms).el = el THEN Head(terms).amt ELSE 0) + AmountOf(Tail(terms), el)

RECURSIVE TotalAmount(_)
TotalAmount(terms) ==
    IF terms = <<>> THEN 0 ELSE Head(terms).amt + TotalAmount(Tail(terms))

\* formula2dict: element -> fraction of the atoms of the formula
formula2dict(str) ==
    LET terms == ParseFormula(str, 1)
        els == {terms[i].el : i \in 1..Len(terms)}
    IN  [e \in els |-> Fin(AmountOf(terms, e), TotalAmount(terms))]

----------------------------------------------------------------------------
(* pandas Series: index label -> value, whether two rows carried the same *)
(* label, and the dtypes of the values and of the index                    *)

AllNum(m) == \A l \in DOMAIN m : m[l].t = "num"
AllStr(m) == \A l \in DOMAIN m : m[l].t = "str"

\* pd.Series(elem_values): a dict is indexed by its keys, a list by 0, 1, ...
Series(elem_values) ==
    LET m == IF elem_values.shape = "dict" THEN elem_values.m
             ELSE [l \in {IntLabel(i - 1) : i \in 1..Len(elem_values.l)} |->
                      StrVal(elem_values.l[l.n + 1])]
    IN  [m |-> m,
         unique |-> TRUE,
         \* an empty Series is float64 before pandas 2.0 and object since
         dtype |-> IF DOMAIN m = {} THEN (IF pandas = "legacy" THEN "numeric" ELSE "object")
                   ELSE IF AllNum(m) THEN "numeric" ELSE "object",
         \* an empty Series has an object Index before pandas 2.0, a RangeIndex since
         index_dtype |-> IF DOMAIN m = {}
                         THEN (IF pandas = "legacy" THEN "object" ELSE "int64")
                         ELSE IF \A l \in DOMAIN m : l.t = "int" THEN "int64" ELSE "object"]

\* the dtype test applied to the index instead of the values
is_numeric_dtype_of_index(srs) == srs.index_dtype = "int64"

is_numeric_dtype(srs) == srs.dtype = "numeric"

\* pandas < 2.0: True for every object array; pandas >= 2.0: only when the
\* elements of the object array are all strings
is_string_dtype(srs) ==
    /\ srs.dtype = "object"
    /\ \/ pandas = "legacy"
       \/ DOMAIN srs.m # {} /\ AllStr(srs.m)

RECURSIVE SumOver(_, _, _)
\* DataFrame.sum() of one column: the sum of the cells that are not NaN
SumOver(rows, dicts, el) ==
    IF rows = {} THEN Zero
    ELSE LET r == CHOOSE x \in rows : TRUE
             rest == SumOver(rows \ {r}, dicts, el)
         IN  IF el \in DOMAIN dicts[r] THEN FAdd(dicts[r][el], rest) ELSE rest

\* srs.apply(formula2dict).sum(), for a Series of strings
apply_formula2dict_sum(srs) ==
    LET rows == DOMAIN srs.m
        dicts == [r \in rows |-> formula2dict(srs.m[r].s)]
        els == UNION {DOMAIN dicts[r] : r \in rows}
    IN  [m |-> [l \in {StrLabel(e) : e \in els} |-> NumVal(SumOver(rows, dicts, l.s))],
         unique |-> TRUE,
         dtype |-> "numeric",
         index_dtype |-> "object"]

\* srs.index.dtype == int or srs.index.str.isdigit().all()
index_is_atomic_numbers(srs) ==
    \/ srs.index_dtype = "int64"
    \/ \A l \in DOMAIN srs.m : isdigit(l.s)

\* int(label) of an integer or digit-string label
LabelToInt(l) == IF l.t = "int" THEN l.n ELSE StrToInt(l.s)

\* srs.index = srs.index.astype(int).map(atomic number -> symbol)
map_atomic_numbers(srs) ==
    LET old == DOMAIN srs.m
        new(l) == atomic_number_to_symbol(LabelToInt(l))
        labels == {new(l) : l \in old}
    IN  [srs EXCEPT
            !.m = [k \in labels |-> srs.m[CHOOSE l \in old : new(l) = k]],
            !.unique = (Cardinality(labels) = Cardinality(old)),
            !.index_dtype = "object"]

\* the Series returned as it is, without the symbols it does not hold
reindex_skipped(srs) ==
    [l \in DOMAIN srs.m |-> srs.m[l].x]

\* srs.reindex(df_ptable.index, fill_value=0).rename("count"), for a unique index
reindex(srs) ==
    Eval([sym \in df_ptable_index |->
        IF StrLabel(sym) \in DOMAIN srs.m THEN srs.m[StrLabel(sym)].x ELSE Zero])

count_elements(elem_values) ==
    LET srs0 == Series(elem_values)
        good == is_numeric_dtype(srs0) \/ is_string_dtype(srs0)
        srs1 == IF is_numeric_dtype(srs0) THEN srs0 ELSE apply_formula2dict_sum(srs0)
        srs2 == IF index_is_atomic_numbers(srs1) THEN map_atomic_numbers(srs1) ELSE srs1
    IN  CASE ~good ->
                Raise("ValueError", "Expected elem_values to be map ... got", elem_values)
          [] ~is_numeric_dtype(srs0) /\ ~AllStr(srs0.m) ->
                \* Composition(1) is dict(1)
                Raise("TypeError", "object is not iterable", NoInput)
          [] ~is_numeric_dtype(srs0) /\ \E l \in DOMAIN srs0.m : ~IsFormula(srs0.m[l].s, 1) ->
                Raise("ValueError", "is an invalid formula", NoInput)
          [] ~srs2.unique ->
                Raise("ValueError", "cannot reindex on an axis with duplicate labels", NoInput)
          [] OTHER -> Return(reindex(srs2))

----------------------------------------------------------------------------
(* pyplot: the figures in creation order, each the sequence of its axes in   *)
(* creation order; an axes counts the artists drawn on it. The current       *)
(* figure is the one created last, its current axes the one added last.      *)

NewAxes == [tiles |-> 0, symbols |-> 0, heat_labels |-> 0, legends |-> 0,
            colorbars |-> 0, bars |-> 0, bar_labels |-> 0, props |-> {}]

None == <<0, 0>>    \* ax=None; an Axes is <<figure, axes>>

AllAxes(c) == UNION {{<<f, a>> : a \in 1..Len(c[f])} : f \in 1..Len(c)}

\* plt.figure(): a new, empty figure becomes the current one
figure(c) == Append(c, <<>>)

\* plt.gca(): the current axes, made (with its figure) when there is none
gca(c) ==
    IF c = <<>> THEN [canvas |-> <<<<NewAxes>>>>, ax |-> <<1, 1>>]
    ELSE IF c[Len(c)] = <<>>
         THEN [canvas |-> [c EXCEPT ![Len(c)] = <<NewAxes>>], ax |-> <<Len(c), 1>>]
         ELSE [canvas |-> c, ax |-> <<Len(c), Len(c[Len(c)])>>]

\* n more artists of one kind on an axes
draw(c, ax, kind, n) == [c EXCEPT ![ax[1]][ax[2]][kind] = @ + n]

\* properties set on an axes (limits, title, scale, ...)
set_props(c, ax, props) == [c EXCEPT ![ax[1]][ax[2]].props = @ \cup props]

----------------------------------------------------------------------------
(* Reductions over a vector in table order *)

RECURSIVE SumRange(_, _, _, _)
\* the sum of the entries of vec at the symbols lo..hi of the table that satisfy keep
SumRange(vec, keep, lo, hi) ==
    IF lo > hi THEN Zero
    ELSE IF lo = hi THEN (IF keep[Symbols[lo]] THEN vec[Symbols[lo]] ELSE Zero)
    ELSE LET mid == (lo + hi) \div 2
         IN  FAdd(SumRange(vec, keep, lo, mid), SumRange(vec, keep, mid + 1, hi))

SumFrom(vec, keep, i) == SumRange(vec, keep, i, Len(Symbols))

\* Series.sum(): NaN entries are skipped, infinite ones are not
sum(vec) == SumFrom(vec, [s \in DOMAIN vec |-> ~IsNaN(vec[s])], 1)

\* elem_values.replace([np.inf, -np.inf], np.nan).dropna(): the finite entries
clean(vec) == [s \in DOMAIN vec |-> IsFinite(vec[s])]

\* ndarray.min() / max() of a non-empty set of floats: NaN if any is NaN
min(vals) ==
    IF \E v \in vals : IsNaN(v) THEN NaN
    ELSE CHOOSE v \in vals : \A w \in vals : ~FLess(w, v)

max(vals) ==
    IF \E v \in vals : IsNaN(v) THEN NaN
    ELSE CHOOSE v \in vals : \A w \in vals : ~FLess(v, w)

NoneNum == [k |-> "none", n |-> 0, d |-> 1]     \* None where a number may stand

----------------------------------------------------------------------------
(* ptable_heatmap *)

\* norm.autoscale(clean_vals): Normalize takes the minimum and maximum,
\* LogNorm those of the positive values
autoscale(log, vals) ==
    LET used == IF log THEN {v \in vals : FLess(Zero, v)} ELSE vals
    IN  IF used = {} THEN [log |-> log, vmin |-> NoneNum, vmax |-> NoneNum]
        ELSE [log |-> log, vmin |-> min(used), vmax |-> max(used)]

\* calling the norm raises: no limits, vmin > vmax, or a limit with no logarithm
norm_raises(norm) ==
    \/ norm.vmin = NoneNum \/ norm.vmax = NoneNum
    \/ FLess(norm.vmax, norm.vmin)
    \/ norm.log /\ ~(FLess(Zero, norm.vmin) /\ FLess(Zero, norm.vmax)
                     /\ IsFinite(norm.vmin) /\ IsFinite(norm.vmax))

\* the branch of the tile loop that picks the colour of one tile
tile_color(heat_val) ==
    IF heat_val = PosInf THEN "infty_color"
    ELSE IF IsNaN(heat_val) THEN "na_color"
    ELSE IF FLess(Zero, heat_val) THEN "color_map(norm(heat_val))"
    ELSE "zero_color"

\* the label of one tile: a literal, or the value under a format
tile_label(heat_val, heat_labels, precision) ==
    IF heat_val = PosInf THEN [text |-> "$\\infty$", val |-> heat_val]
    ELSE IF IsNaN(heat_val) THEN [text |-> "$0\\,/\\,0$", val |-> heat_val]
    ELSE IF heat_labels = "percent"
         THEN [text |-> IF precision = "" THEN ".1%" ELSE precision, val |-> heat_val]
         ELSE [text |-> IF precision = "" THEN ".3g" ELSE precision, val |-> heat_val]

\* the test with "fraction" forgotten
conflict_percent_only(log, heat_labels) == log /\ heat_labels = "percent"

\* if log and heat_labels in ("fraction", "percent")
conflict(log, heat_labels) == log /\ heat_labels \in {"fraction", "percent"}

ConflictError ==
    Raise("ValueError",
          "Combining log color scale and heat_labels='fraction'/'percent' unsupported",
          NoInput)

\* if cbar_max is not None: norm.vmax = cbar_max
set_vmax(norm, cbar_max) ==
    IF cbar_max # NoneNum THEN [norm EXCEPT !.vmax = cbar_max] ELSE norm

\* vec / total, entry by entry
divide_by(vec, total) == Eval([s \in DOMAIN vec |-> FDiv(vec[s], total)])

\* if heat_labels in ("fraction", "percent"): elem_values /= clean_vals.sum()
normalize_for_labels(vec, heat_labels) ==
    IF heat_labels \in {"fraction", "percent"}
    THEN divide_by(vec, SumFrom(vec, clean(vec), 1))
    ELSE vec

\* if ax is None: ax = plt.gca()
ax_or_gca(c, ax) == IF ax = None THEN gca(c) ELSE [canvas |-> c, ax |-> ax]

\* pyplot functions (plt.text, plt.title, plt.ylim, ...) act on the current axes
draw_on(cur, kind, n) == draw(cur.canvas, cur.ax, kind, n)
plt_draw(c, kind, n) == draw_on(gca(c), kind, n)
set_on(cur, props) == set_props(cur.canvas, cur.ax, props)
plt_set(c, props) == set_on(gca(c), props)

\* the tile loop and what follows it: symbols and heat labels by plt.text, the
\* rectangles by ax.add_patch, the colour bar in an inset of ax, the limits by
\* plt.ylim, plt.xlim, plt.axis
heatmap_drawn(g, heat_labels) ==
    LET n == Len(Symbols)
        c2 == plt_draw(g.canvas, "symbols", n)
        c3 == plt_draw(c2, "heat_labels", IF heat_labels # "None" THEN n ELSE 0)
        c4 == draw(c3, g.ax, "tiles", n)
        c5 == draw(c4, g.ax, "colorbars", IF heat_labels # "None" THEN 1 ELSE 0)
    IN  plt_set(c5, {"ylim", "xlim", "axis off"})

\* from the first norm(heat_val) of the tile loop on
heatmap_norm(g, a, elem_values, norm) ==
    IF norm_raises(norm)
    THEN [canvas |-> g.canvas,
          out |-> Raise("ValueError", "invalid vmin or vmax", NoInput)]
    ELSE [canvas |-> heatmap_drawn(g, a.heat_labels),
          out |-> Return([ax |-> g.ax,
                          elem_values |-> elem_values,
                          norm |-> norm,
                          color |-> [s \in DOMAIN elem_values |-> tile_color(elem_values[s])],
                          label |-> [s \in DOMAIN elem_values |->
                              tile_label(elem_values[s], a.heat_labels, a.precision)]])]

\* norm.autoscale(clean_vals.to_numpy()) and the cbar_max override
heatmap_clean(g, a, elem_values, clean_vals) ==
    IF ~a.log /\ clean_vals = {}
    THEN [canvas |-> g.canvas,
          out |-> Raise("ValueError", "zero-size array to reduction operation", NoInput)]
    ELSE heatmap_norm(g, a, elem_values, set_vmax(autoscale(a.log, clean_vals), a.cbar_max))

\* clean_vals: the entries that were finite before the division by their sum
heatmap_values(g, a, elem_values, keep) ==
    heatmap_clean(g, a, elem_values, {elem_values[s] : s \in {x \in DOMAIN keep : keep[x]}})

\* after elem_values = count_elements(elem_values): fig = plt.figure(...) and
\* the choice of ax
heatmap_counted(c, a, counted) ==
    IF Raised(counted) THEN [canvas |-> c, out |-> counted]
    ELSE heatmap_values(ax_or_gca(figure(c), a.ax), a,
                        normalize_for_labels(counted.val, a.heat_labels),
                        clean(counted.val))

\* ptable_heatmap on canvas c with arguments a = [elem_values, log, ax, cbar_max,
\* heat_labels, precision]: the canvas after the call and what the call
\* returned or raised
ptable_heatmap(c, a) ==
    IF conflict(a.log, a.heat_labels) THEN [canvas |-> c, out |-> ConflictError]
    ELSE heatmap_counted(c, a, count_elements(a.elem_values))

----------------------------------------------------------------------------
(* ptable_heatmap_ratio *)

\* the quotient with its operands exchanged
divide_swapped(num, denom) == Eval([s \in DOMAIN num |-> FDiv(denom[s], num[s])])

\* elem_values_num / elem_values_denom
divide(num, denom) == Eval([s \in DOMAIN num |-> FDiv(num[s], denom[s])])

\* elem_values /= elem_values.sum()
normalize_by_sum(vec) == divide_by(vec, sum(vec))

\* a Series handed on as elem_values
AsSeries(vec) ==
    DictInput(Eval([l \in {StrLabel(s) : s \in DOMAIN vec} |-> NumVal(vec[l.s])]))

\* the three legend entries, written with plt.text
ratio_legends(h) ==
    IF Raised(h.out) THEN h
    ELSE [canvas |-> plt_draw(h.canvas, "legends", 3), out |-> h.out]

\* ptable_heatmap(elem_values, cbar_title=cbar_title, precision=".1f", **kwargs)
ratio_heatmap(c, a, elem_values) ==
    ratio_legends(ptable_heatmap(c, [elem_values |-> AsSeries(elem_values),
                                     log |-> a.kwargs.log,
                                     ax |-> a.kwargs.ax,
                                     cbar_max |-> a.kwargs.cbar_max,
                                     heat_labels |-> a.kwargs.heat_labels,
                                     precision |-> ".1f"]))

\* if normalize: elem_values /= elem_values.sum()
ratio_values(c, a, ratio) ==
    ratio_heatmap(c, a, IF a.normalize THEN normalize_by_sum(ratio) ELSE ratio)

ratio_counted(c, a, num, denom) ==
    IF Raised(num) THEN [canvas |-> c, out |-> num]
    ELSE IF Raised(denom) THEN [canvas |-> c, out |-> denom]
    ELSE ratio_values(c, a, divide(num.val, denom.val))

\* a = [elem_values_num, elem_values_denom, normalize, kwargs]; kwargs are those
\* of ptable_heatmap
ptable_heatmap_ratio(c, a) ==
    ratio_counted(c, a, count_elements(a.elem_values_num),
                  count_elements(a.elem_values_denom))

----------------------------------------------------------------------------
(* hist_elemental_prevalence *)

NoKeepTop == -1     \* keep_top=None

Min2(i, j) == IF i < j THEN i ELSE j

\* elem_counts[elem_counts > 0]
non_zero(counts) == {s \in DOMAIN counts : FLess(Zero, counts[s])}

RECURSIVE ascending_orders(_, _)
\* the orders with the smallest count first
ascending_orders(S, counts) ==
    IF S = {} THEN {<<>>}
    ELSE UNION {{<<m>> \o rest : rest \in ascending_orders(S \ {m}, counts)} :
                m \in {x \in S : \A y \in S : ~FLess(counts[y], counts[x])}}

RECURSIVE sort_values(_, _)
\* sort_values(ascending=False): the orders of the symbols S with no count before
\* a larger one; which of them is taken among equal counts is the sort's choice
sort_values(S, counts) ==
    IF S = {} THEN {<<>>}
    ELSE UNION {{<<m>> \o rest : rest \in sort_values(S \ {m}, counts)} :
                m \in {x \in S : \A y \in S : ~FLess(counts[x], counts[y])}}

\* Series.head(n) for n >= 0
head(seq, n) == SubSeq(seq, 1, Min2(n, Len(seq)))

RECURSIVE sum_heights(_, _)
\* non_zero.sum(): the sum of the heights from bar i on
sum_heights(heights, i) ==
    IF i > Len(heights) THEN Zero ELSE FAdd(heights[i], sum_heights(heights, i + 1))

\* f"{x:.1%}" of a finite x >= 0: the number the text shows, x rounded to a
\* whole number of thousandths, a tie to the even one
format_percent(x) ==
    LET q == (1000 * x.n) \div x.d
        r == (1000 * x.n) % x.d
    IN  IF 2 * r > x.d \/ (2 * r = x.d /\ q % 2 = 1) THEN Fin(q + 1, 1000) ELSE Fin(q, 1000)

\* the labels of the bars: el / sum_elements, or non_zero.astype(int)
bar_labels(heights, bar_values) ==
    IF bar_values = "percent"
    THEN [i \in DOMAIN heights |->
             format_percent(FDiv(heights[i], sum_heights(heights, 1)))]
    ELSE IF bar_values = "count"
    THEN [i \in DOMAIN heights |-> Num(int(heights[i]))]
    ELSE <<>>

\* annotate_bar_heights(ax, labels): one annotation for each pair of
\* zip(ax.patches, labels)
annotate_bar_heights(c, ax, labels) ==
    draw(c, ax, "bar_labels",
         Min2(c[ax[1]][ax[2]].tiles + c[ax[1]][ax[2]].bars, Len(labels)))

\* plt.ylabel, plt.yscale, the labels
hist_annotated(c, a, ax, bars_ax, bars, labels) ==
    [canvas |-> IF a.bar_values = "None" THEN c ELSE annotate_bar_heights(c, ax, labels),
     out |-> Return([ax |-> ax, bars |-> bars, bars_ax |-> bars_ax, labels |-> labels])]

\* non_zero.plot.bar(...) draws on the current axes
hist_bars(a, ax, cur, shown, heights) ==
    hist_annotated(
        set_on([canvas |-> draw_on(cur, "bars", Len(shown)), ax |-> cur.ax],
               {"ylabel"} \cup (IF a.log THEN {"yscale log"} ELSE {})),
        a, ax, cur.ax,
        [i \in DOMAIN shown |-> [symbol |-> shown[i], height |-> heights[i]]],
        bar_labels(heights, a.bar_values))

\* the bar plot of an empty Series raises
hist_shown(cur, a, ax, counts, shown) ==
    IF shown = <<>>
    THEN [canvas |-> cur.canvas,
          out |-> Raise("IndexError", "index 0 is out of bounds for axis 0 with size 0",
                        NoInput)]
    ELSE hist_bars(a, ax, cur, shown, [i \in DOMAIN shown |-> counts[shown[i]]])

\* if keep_top is not None: non_zero = non_zero.head(keep_top); plt.title(...)
hist_counted(g, a, elem_counts, order) ==
    IF Raised(elem_counts) THEN [canvas |-> g.canvas, out |-> elem_counts]
    ELSE IF a.keep_top = NoKeepTop
    THEN hist_shown(gca(g.canvas), a, g.ax, elem_counts.val, order)
    ELSE hist_shown(gca(plt_set(g.canvas, {"title"})), a, g.ax, elem_counts.val,
                    head(order, a.keep_top))

\* a = [formulas, log, keep_top, ax, bar_values]; order is the sorted order taken
hist_elemental_prevalence(c, a, order) ==
    hist_counted(ax_or_gca(c, a.ax), a, count_elements(a.formulas), order)

----------------------------------------------------------------------------
(* ptable_heatmap_plotly. A text is the sequence of its pieces: the name of    *)
(* an element, "<br>", a label, " = ", a value of the table, an entry of       *)
(* hover_data.                                                                  *)

Piece(kind, symbol, col) == [t |-> kind, s |-> symbol, c |-> col]
Br == Piece("<br>", <<>>, "")
Eq == Piece(" = ", <<>>, "")

\* the columns of df_ptable that hover_cols may name
Columns == {"atomic_mass", "n_valence", "density"}

\* df_ptable.loc[symbol][col]
df_row(symbol, col) == Piece("value", symbol, col)

\* hover_cols=None, a list of names, or a dict from names to labels in the
\* order of its items
NoHoverCols == [kind |-> "None", items |-> <<>>]
ColsList(names) ==
    [kind |-> "list", items |-> [i \in DOMAIN names |-> [name |-> names[i], label |-> names[i]]]]
ColsDict(names) ==
    [kind |-> "dict",
     items |-> [i \in DOMAIN names |-> [name |-> names[i], label |-> "# " \o names[i]]]]

\* hover_data=None or a mapping from some symbols to extra text
NoHoverData == [given |-> FALSE, keys |-> {}]
HoverData(symbols) == [given |-> TRUE, keys |-> symbols]

RECURSIVE join_lines(_, _, _)
\* "<br>".join(f"{x} = {df_row[x]}" for x in hover_cols), from item i on
join_lines(symbol, items, i) ==
    IF i > Len(items) THEN <<>>
    ELSE (IF i > 1 THEN <<Br>> ELSE <<>>)
         \o <<Piece("label", <<>>, items[i].label), Eq, df_row(symbol, items[i].name)>>
         \o join_lines(symbol, items, i + 1)

\* the lines of the hover text that hover_cols asks for
hover_cols_text(symbol, hover_text, hover_cols) ==
    IF hover_cols.kind = "None" THEN Return(hover_text)
    ELSE IF \E i \in DOMAIN hover_cols.items : hover_cols.items[i].name \notin Columns
    THEN Raise("KeyError", "df_row", NoInput)
    ELSE IF hover_cols.kind = "dict"
    THEN \* col_data_str is assigned in the else branch only
         Raise("UnboundLocalError",
               "local variable 'col_data_str' referenced before assignment", NoInput)
    ELSE Return(hover_text \o <<Br>> \o join_lines(symbol, hover_cols.items, 1))

\* hover_text = name, then hover_data[symbol], then the lines of hover_cols
hover_text_of(symbol, hover_cols, hover_data) ==
    IF ~hover_data.given
    THEN hover_cols_text(symbol, <<Piece("name", symbol, "name")>>, hover_cols)
    ELSE IF symbol \notin hover_data.keys
    THEN Raise("KeyError", "hover_data", NoInput)
    ELSE hover_cols_text(symbol,
                         <<Piece("name", symbol, "name"), Br, Piece("hover_data", symbol, "")>>,
                         hover_cols)

Epsilon == Fin(1, 1000000)      \* 1e-6

\* the colorscale argument: None, a list of (value, colour) pairs, or a name
colorscale_raises(colorscale) == colorscale \notin {"None", "list"}

\* the figure: heat values, tile texts and hover texts of the elements
plotly_figure(a, elem_values, label_vals, hover_texts) ==
    Return([heat_vals |-> [s \in DOMAIN elem_values |-> FAdd(elem_values[s], Epsilon)],
            tile_texts |-> [s \in DOMAIN elem_values |->
                [symbol |-> s,
                 label |-> IF a.heat_labels = "None" THEN "" 
                           ELSE IF a.heat_labels = "percent" THEN ".1%" ELSE ".3g",
                 val |-> label_vals[s]]],
            hover_texts |-> [s \in DOMAIN elem_values |-> hover_texts[s].val],
            showscale |-> TRUE])

\* the loop over the table raises at the first element whose texts cannot be
\* made; after the loop the colorscale is looked at
plotly_texts(a, elem_values, label_vals, hover_texts) ==
    IF \E i \in DOMAIN Symbols : Raised(hover_texts[Symbols[i]])
    THEN hover_texts[Symbols[CHOOSE i \in DOMAIN Symbols :
                                /\ Raised(hover_texts[Symbols[i]])
                                /\ \A j \in 1..(i - 1) : ~Raised(hover_texts[Symbols[j]])]]
    ELSE IF colorscale_raises(a.colorscale)
    THEN Raise("NotImplementedError",
               "passing in string names as colorscale not currently supported", NoInput)
    ELSE plotly_figure(a, elem_values, label_vals, hover_texts)

\* label_vals = elem_values / clean_vals.sum() for "fraction" and "percent"
plotly_counted(a, counted) ==
    IF Raised(counted) THEN counted
    ELSE plotly_texts(a, counted.val,
                      normalize_for_labels(counted.val, a.heat_labels),
                      Eval([s \in df_ptable_index |->
                               hover_text_of(s, a.hover_cols, a.hover_data)]))

\* a = [elem_values, heat_labels, hover_cols, hover_data, colorscale]
ptable_heatmap_plotly(a) == plotly_counted(a, count_elements(a.elem_values))

----------------------------------------------------------------------------
(* Bounds of the model and the inputs the calls are tried on *)

MaxKeys == 2        \* entries of a dict input
MaxVal == 2         \* largest integer value of a dict input
MaxFormulas == 2    \* length of a list of compositions

Fe == <<"F", "e">>
O == <<"O">>
H == <<"H">>
Og == <<"O", "g">>
Bi == <<"B", "i">>
Te == <<"T", "e">>

\* element symbols, and a text that is no element symbol
SampleSymbolKeys == {StrLabel(s) : s \in {Fe, O, Og, <<"X", "x">>}}
\* atomic numbers, and integers that are none
SampleIntKeys == {IntLabel(n) : n \in {0, 1, 8, 26, 118, 119}}
SampleDigitKeys == {StrLabel(s) : s \in {<<"8">>, <<"0", "8">>, <<"2", "6">>,
                                        <<"1", "1", "8">>, <<"1", "1", "9">>}}
SampleFormulas == {<<"F", "e", "2", "O", "3">>, <<"B", "i", "2", "T", "e", "3">>,
                   <<"H", "2", "O">>}

SampleNumbers == {Num(i) : i \in 0..MaxVal} \cup {Fin(1, 2)}
NumVals == {NumVal(x) : x \in SampleNumbers}
StrVals == {StrVal(f) : f \in {<<"F", "e", "2", "O", "3">>, <<"H", "2", "O">>}}

Dicts(keys, vals) ==
    UNION {[K -> vals] : K \in {S \in SUBSET keys : Cardinality(S) <= MaxKeys}}

Lists(items) == UNION {[1..n -> items] : n \in 0..MaxFormulas}

ElemInputs ==
    {DictInput(m) : m \in Dicts(SampleSymbolKeys, NumVals \cup StrVals)
                          \cup Dicts(SampleIntKeys, NumVals)
                          \cup Dicts(SampleDigitKeys, NumVals)}
    \cup {ListInput(l) : l \in Lists(SampleFormulas)}

----------------------------------------------------------------------------
(* State *)

Builds == {"legacy", "strict"}
NoOp == [fn |-> "none"]
NoRet == [exc |-> NoExc, val |-> <<>>]
EmptyCanvas == <<>>


----------------------------------------------------------------------------
(* count_elements called on its own *)

InitCount ==
    /\ pandas \in Builds
    /\ pc = "call"
    /\ op \in {[fn |-> "count_elements", elem_values |-> x] : x \in ElemInputs}
    /\ ret = NoRet
    /\ canvas = EmptyCanvas

CountElements ==
    /\ pc = "call"
    /\ op.fn = "count_elements"
    /\ ret' = count_elements(op.elem_values)
    /\ pc' = "done"
    /\ UNCHANGED <<pandas, op, canvas>>

\* the caller passes the returned vector to count_elements again
Recount ==
    /\ pc = "done"
    /\ op.fn = "count_elements"
    /\ ~Raised(ret)
    /\ op' = [fn |-> "count_elements", elem_values |-> AsSeries(ret.val)]
    /\ ret' = count_elements(op'.elem_values)
    /\ pc' = "done"
    /\ UNCHANGED <<pandas, canvas>>

NextCount == CountElements \/ Recount

SpecCount == InitCount /\ [][NextCount]_vars

----------------------------------------------------------------------------
(* get_crystal_sys called on its own *)

MaxSpg == 233       \* largest space-group number tried
MinSpg == 3         \* the numbers tried start at -MinSpg

\* the strict variant of the range test turned inclusive
get_crystal_sys_inclusive(spg) ==
    IF ~(spg = Num(int(spg)) /\ ~FLess(spg, Zero) /\ ~FLess(Num(231), spg))
    THEN Raise("ValueError", "Received invalid space group", spg)
    ELSE Return("cubic")

get_crystal_sys(spg) ==
    IF ~(spg = Num(int(spg)) /\ FLess(Zero, spg) /\ FLess(spg, Num(231)))
    THEN Raise("ValueError", "Received invalid space group", spg)
    ELSE IF FLess(Zero, spg) /\ FLess(spg, Num(3)) THEN Return("triclinic")
    ELSE IF FLess(spg, Num(16)) THEN Return("monoclinic")
    ELSE IF FLess(spg, Num(75)) THEN Return("orthorhombic")
    ELSE IF FLess(spg, Num(143)) THEN Return("tetragonal")
    ELSE IF FLess(spg, Num(168)) THEN Return("trigonal")
    ELSE IF FLess(spg, Num(195)) THEN Return("hexagonal")
    ELSE Return("cubic")

\* integers and half-integers from -MinSpg to MaxSpg
SpgInputs == {Fin(n, 2) : n \in (-2 * MinSpg)..(2 * MaxSpg)}

InitSpg ==
    /\ pandas \in Builds
    /\ pc = "call"
    /\ op \in {[fn |-> "get_crystal_sys", spg |-> x] : x \in SpgInputs}
    /\ ret = NoRet
    /\ canvas = EmptyCanvas

GetCrystalSys ==
    /\ pc = "call"
    /\ op.fn = "get_crystal_sys"
    /\ ret' = get_crystal_sys(op.spg)
    /\ pc' = "done"
    /\ UNCHANGED <<pandas, op, canvas>>

SpecSpg == InitSpg /\ [][GetCrystalSys]_vars

----------------------------------------------------------------------------
(* A periodic-table heat map drawn on the canvas the caller has set up *)

MaxFigs == 2        \* figures the caller makes with plt.subplots()
MaxCbar == 3        \* largest cbar_max

\* inputs of ptable_heatmap: dicts with positive, zero and negative values, a
\* list of compositions, an empty dict and a dict whose keys name oxygen twice
HeatInputs ==
    {DictInput((StrLabel(Fe) :> NumVal(One)) @@ (StrLabel(O) :> NumVal(Num(2)))),
     DictInput((StrLabel(Fe) :> NumVal(Num(-1))) @@ (StrLabel(O) :> NumVal(Zero))),
     DictInput(<<>>),
     DictInput((StrLabel(<<"8">>) :> NumVal(One)) @@ (StrLabel(<<"0", "8">>) :> NumVal(One))),
     ListInput(<<<<"F", "e", "2", "O", "3">>, <<"B", "i", "2", "T", "e", "3">>>>)}

HeatLabels == {"value", "fraction", "percent", "None"}
CbarMaxes == {NoneNum, One, Num(MaxCbar)}

RatioInputs ==
    {DictInput(m) : m \in [{StrLabel(Fe), StrLabel(O)} -> {NumVal(Num(i)) : i \in 0..2}]}
    \cup {ListInput(<<<<"F", "e", "2", "O", "3">>>>)}

DefaultKwargs == [log |-> FALSE, ax |-> None, cbar_max |-> NoneNum, heat_labels |-> "value"]

Init ==
    /\ pandas \in Builds
    /\ pc = "idle"
    /\ op = NoOp
    /\ ret = NoRet
    /\ canvas = EmptyCanvas

\* the caller's fig, ax = plt.subplots()
PltSubplots ==
    /\ pc = "idle"
    /\ Len(canvas) < MaxFigs
    /\ canvas' = Append(canvas, <<NewAxes>>)
    /\ UNCHANGED <<pandas, pc, op, ret>>

PtableHeatmap ==
    /\ pc = "idle"
    /\ \E elem_values \in HeatInputs, log \in BOOLEAN, ax \in {None} \cup AllAxes(canvas),
          cbar_max \in CbarMaxes, heat_labels \in HeatLabels :
          LET a == [elem_values |-> elem_values, log |-> log, ax |-> ax,
                    cbar_max |-> cbar_max, heat_labels |-> heat_labels, precision |-> ""]
              r == ptable_heatmap(canvas, a)
          IN  /\ op' = [fn |-> "ptable_heatmap", args |-> a]
              /\ ret' = r.out
              /\ canvas' = r.canvas
    /\ pc' = "done"
    /\ UNCHANGED pandas

PtableHeatmapRatio ==
    /\ pc = "idle"
    /\ \E num \in RatioInputs, denom \in RatioInputs, normalize \in BOOLEAN :
          LET a == [elem_values_num |-> num, elem_values_denom |-> denom,
                    normalize |-> normalize, kwargs |-> DefaultKwargs]
              r == ptable_heatmap_ratio(canvas, a)
          IN  /\ op' = [fn |-> "ptable_heatmap_ratio", args |-> a]
              /\ ret' = r.out
              /\ canvas' = r.canvas
    /\ pc' = "done"
    /\ UNCHANGED pandas

Next == PltSubplots \/ PtableHeatmap \/ PtableHeatmapRatio

Spec == Init /\ [][Next]_vars

----------------------------------------------------------------------------
(* hist_elemental_prevalence called on the canvas the caller has set up *)

MaxKeepTop == 2     \* largest keep_top

\* lists with and without equal counts, dicts with a zero count, an empty list
HistInputs ==
    {ListInput(<<<<"F", "e", "2", "O", "3">>, <<"B", "i", "2", "T", "e", "3">>>>),
     ListInput(<<<<"F", "e", "2", "O", "3">>, <<"H", "2", "O">>>>),
     DictInput((StrLabel(Fe) :> NumVal(Zero)) @@ (StrLabel(O) :> NumVal(Num(3)))
               @@ (StrLabel(H) :> NumVal(Num(5)))),
     ListInput(<<>>)}

KeepTops == {NoKeepTop} \cup 0..MaxKeepTop
BarValues == {"percent", "count", "None"}

HistElementalPrevalence ==
    /\ pc = "idle"
    /\ \E formulas \in HistInputs, log \in BOOLEAN, keep_top \in KeepTops,
          ax \in {None} \cup AllAxes(canvas), bar_values \in BarValues :
          LET a == [formulas |-> formulas, log |-> log, keep_top |-> keep_top,
                    ax |-> ax, bar_values |-> bar_values]
              counted == count_elements(formulas)
              orders == IF Raised(counted) THEN {<<>>}
                        ELSE sort_values(non_zero(counted.val), counted.val)
          IN  \E order \in orders :
                LET r == hist_elemental_prevalence(canvas, a, order)
                IN  /\ op' = [fn |-> "hist_elemental_prevalence", args |-> a]
                    /\ ret' = r.out
                    /\ canvas' = r.canvas
    /\ pc' = "done"
    /\ UNCHANGED pandas

NextHist == PltSubplots \/ HistElementalPrevalence

SpecHist == Init /\ [][NextHist]_vars

----------------------------------------------------------------------------
(* ptable_heatmap_plotly called on its own; it draws on no pyplot canvas *)

MaxCols == 2        \* entries of hover_cols

\* column names, one of them no column of the table
SampleCols == {"atomic_mass", "n_valence", "colour"}

\* the sequences of different names, up to MaxCols of them
ColSeqs ==
    {q \in UNION {[1..n -> SampleCols] : n \in 0..MaxCols} :
        \A i, j \in DOMAIN q : q[i] = q[j] => i = j}

HoverCols == {NoHoverCols} \cup {ColsList(q) : q \in ColSeqs} \cup {ColsDict(q) : q \in ColSeqs}
HoverDatas == {NoHoverData, HoverData(df_ptable_index), HoverData({Fe, O})}
Colorscales == {"None", "list", "viridis"}

PlotlyInputs ==
    {DictInput((StrLabel(Fe) :> NumVal(One)) @@ (StrLabel(O) :> NumVal(Num(2)))),
     DictInput((StrLabel(<<"8">>) :> NumVal(One)) @@ (StrLabel(<<"0", "8">>) :> NumVal(One))),
     ListInput(<<<<"F", "e", "2", "O", "3">>, <<"B", "i", "2", "T", "e", "3">>>>)}

PtableHeatmapPlotly ==
    /\ pc = "idle"
    /\ \E elem_values \in PlotlyInputs, heat_labels \in HeatLabels, hover_cols \in HoverCols,
          hover_data \in HoverDatas, colorscale \in Colorscales :
          LET a == [elem_values |-> elem_values, heat_labels |-> heat_labels,
                    hover_cols |-> hover_cols, hover_data |-> hover_data,
                    colorscale |-> colorscale]
          IN  /\ op' = [fn |-> "ptable_heatmap_plotly", args |-> a]
              /\ ret' = ptable_heatmap_plotly(a)
    /\ pc' = "done"
    /\ UNCHANGED <<pandas, canvas>>

SpecPlotly == Init /\ [][PtableHeatmapPlotly]_vars

----------------------------------------------------------------------------
(* Claims about count_elements, checked under SpecCount *)

Counted == pc = "done" /\ op.fn = "count_elements"

\* the atomic-number reading of the keys applies: all integers or all digit strings
KeysAreNumbers(x) ==
    /\ x.shape = "dict"
    /\ DOMAIN x.m # {}
    /\ \/ \A l \in DOMAIN x.m : l.t = "int"
       \/ \A l \in DOMAIN x.m : l.t = "str" /\ isdigit(l.s)

\* the composition strings of the input: the items of a list, the values of a
\* dict of strings
Compositions(x) ==
    IF x.shape = "list" THEN {x.l[i] : i \in 1..Len(x.l)}
    ELSE {x.m[l].s : l \in {k \in DOMAIN x.m : x.m[k].t = "str"}}

\* the input gives a value for the element sym
GivesValue(x, sym) ==
    CASE Compositions(x) # {} -> \E f \in Compositions(x) : sym \in DOMAIN formula2dict(f)
      [] KeysAreNumbers(x) ->
            \E l \in DOMAIN x.m : LabelToInt(l) \in 1..118 /\ Symbols[LabelToInt(l)] = sym
      [] OTHER -> StrLabel(sym) \in DOMAIN x.m

\* C1: every vector count_elements returns is keyed by exactly the 118 element
\* symbols of the table, each once, and holds 0 for every symbol the input gave
\* no value for
C1_DenseVector ==
    (Counted /\ ~Raised(ret)) =>
        /\ Len(Symbols) = 118
        /\ Cardinality(df_ptable_index) = 118
        /\ DOMAIN ret.val = df_ptable_index
        /\ \A sym \in df_ptable_index :
              ~GivesValue(op.elem_values, sym) => ret.val[sym] = Zero

C1_Witness ==
    /\ Counted /\ ~Raised(ret)
    /\ op.elem_values = ListInput(<<<<"F", "e", "2", "O", "3">>, <<"B", "i", "2", "T", "e", "3">>>>)
    /\ ret.val[Fe] = Fin(2, 5)
    /\ ret.val[H] = Zero

IsDense(x) ==
    /\ x.shape = "dict"
    /\ DOMAIN x.m = {StrLabel(s) : s \in df_ptable_index}
    /\ AllNum(x.m)

\* C2: count_elements of a dense vector (a number for each of the 118 symbols)
\* returns the same number for every symbol, so counting a returned vector
\* again changes nothing
C2_Idempotent ==
    (Counted /\ IsDense(op.elem_values)) =>
        /\ ~Raised(ret)
        /\ \A sym \in df_ptable_index : ret.val[sym] = op.elem_values.m[StrLabel(sym)].x

C2_Witness ==
    /\ Counted /\ IsDense(op.elem_values) /\ ~Raised(ret)
    /\ ret.val[Fe] = Fin(2, 5)
    /\ ret.val[Og] = Zero

MixedValues(x) == x.shape = "dict" /\ ~AllNum(x.m) /\ ~AllStr(x.m)

\* C6: for an input whose values are neither all numbers nor all strings,
\* count_elements raises the ValueError whose message holds the input
C6_MixedRaisesInvalidInput ==
    (Counted /\ MixedValues(op.elem_values)) =>
        /\ Raised(ret)
        /\ ret.exc.type = "ValueError"
        /\ ret.exc.arg = op.elem_values

\* the atomic numbers the keys of x denote are within the table and distinct
DenotesElements(x) ==
    /\ \A l \in DOMAIN x.m : LabelToInt(l) \in 1..118
    /\ \A l1, l2 \in DOMAIN x.m : LabelToInt(l1) = LabelToInt(l2) => l1 = l2

\* C7: a numeric dict keyed by integers, or by digit strings, that denote
\* different atomic numbers in 1..118 gives the vector that holds each value at
\* the symbol with that atomic number and 0 elsewhere; a numeric dict keyed by
\* element symbols keeps each value at its key
C7_AtomicNumberKeys ==
    LET x == op.elem_values IN
    /\ (Counted /\ KeysAreNumbers(x) /\ AllNum(x.m) /\ DenotesElements(x)) =>
          /\ ~Raised(ret)
          /\ \A l \in DOMAIN x.m : ret.val[Symbols[LabelToInt(l)]] = x.m[l].x
          /\ \A n \in 1..118 :
                (\A l \in DOMAIN x.m : LabelToInt(l) # n) => ret.val[Symbols[n]] = Zero
    /\ (/\ Counted /\ x.shape = "dict" /\ DOMAIN x.m # {} /\ AllNum(x.m)
        /\ \A l \in DOMAIN x.m : l.t = "str" /\ l.s \in df_ptable_index) =>
          /\ ~Raised(ret)
          /\ \A l \in DOMAIN x.m : ret.val[l.s] = x.m[l].x

\* C7 without the condition that the keys denote different elements: every
\* numeric dict keyed by integers or digit strings in 1..118 gives a vector that
\* holds each value at the symbol with that atomic number
C7_AnyKeysInRange ==
    LET x == op.elem_values IN
    (/\ Counted /\ KeysAreNumbers(x) /\ AllNum(x.m)
     /\ \A l \in DOMAIN x.m : LabelToInt(l) \in 1..118) =>
        /\ ~Raised(ret)
        /\ \A l \in DOMAIN x.m : ret.val[Symbols[LabelToInt(l)]] = x.m[l].x

C7_Witness ==
    /\ Counted /\ ~Raised(ret)
    /\ op.elem_values = DictInput((StrLabel(<<"2", "6">>) :> NumVal(Num(2)))
                                  @@ (StrLabel(<<"0", "8">>) :> NumVal(One)))
    /\ ret.val[Fe] = Num(2)
    /\ ret.val[O] = One

----------------------------------------------------------------------------
(* Claims about get_crystal_sys, checked under SpecSpg *)

CrystalSystems == {"triclinic", "monoclinic", "orthorhombic", "tetragonal",
                   "trigonal", "hexagonal", "cubic"}

\* C8: get_crystal_sys returns a crystal system exactly for the whole numbers
\* 1..230 (1 triclinic, 230 cubic) and raises the invalid-space-group ValueError
\* for every other number
C8_SpaceGroupRange ==
    (pc = "done" /\ op.fn = "get_crystal_sys") =>
        IF op.spg.d = 1 /\ op.spg.n \in 1..230
        THEN /\ ~Raised(ret)
             /\ ret.val \in CrystalSystems
             /\ op.spg.n = 1 => ret.val = "triclinic"
             /\ op.spg.n = 230 => ret.val = "cubic"
        ELSE /\ Raised(ret)
             /\ ret.exc.type = "ValueError"
             /\ ret.exc.msg = "Received invalid space group"

C8_Witness ==
    /\ pc = "done" /\ op.fn = "get_crystal_sys"
    /\ op.spg = Num(231)
    /\ Raised(ret)

----------------------------------------------------------------------------
(* Claims about the periodic-table heat maps, checked under Spec *)

RatioDone == pc = "done" /\ op.fn = "ptable_heatmap_ratio"
HeatmapDone == pc = "done" /\ op.fn = "ptable_heatmap"

\* C3: with normalize=False the value ptable_heatmap_ratio computes for an
\* element from the two aggregated vectors is numerator/denominator when both are
\* nonzero (1 when they are equal), +infinity for a positive numerator over 0,
\* NaN for 0 over 0 and 0 for 0 over a nonzero denominator
C3_RatioValues ==
    (RatioDone /\ ~op.args.normalize /\ ~Raised(ret)) =>
        LET num == count_elements(op.args.elem_values_num).val
            denom == count_elements(op.args.elem_values_denom).val
        IN  \A s \in df_ptable_index :
                LET n == num[s]
                    d == denom[s]
                    v == ret.val.elem_values[s]
                IN  /\ (n # Zero /\ d # Zero) =>
                          /\ IsFinite(v)
                          /\ v.n * n.d * d.n = v.d * n.n * d.d
                          /\ (n = d => v = One)
                    /\ (FLess(Zero, n) /\ d = Zero) => v = PosInf
                    /\ (n = Zero /\ d = Zero) => IsNaN(v)
                    /\ (n = Zero /\ d # Zero) => v = Zero

C3_Witness ==
    /\ RatioDone /\ ~op.args.normalize /\ ~Raised(ret)
    /\ op.args.elem_values_num =
          DictInput((StrLabel(Fe) :> NumVal(Num(2))) @@ (StrLabel(O) :> NumVal(One)))
    /\ op.args.elem_values_denom =
          DictInput((StrLabel(Fe) :> NumVal(One)) @@ (StrLabel(O) :> NumVal(Zero)))
    /\ ret.val.elem_values[Fe] = Num(2)
    /\ ret.val.elem_values[O] = PosInf
    /\ IsNaN(ret.val.elem_values[H])

\* C4: a ptable_heatmap call with log=True and heat_labels "fraction" or
\* "percent" raises the conflict error and leaves the canvas as it was, whatever
\* the input (also one the aggregation would reject); a call with any other
\* combination does not raise this error
C4_ConflictBeforeAnything ==
    [][(pc = "idle" /\ pc' = "done" /\ op'.fn = "ptable_heatmap") =>
          IF op'.args.log /\ op'.args.heat_labels \in {"fraction", "percent"}
          THEN ret' = ConflictError /\ canvas' = canvas
          ELSE ret' # ConflictError]_vars

C4_Witness ==
    /\ HeatmapDone
    /\ op.args.log /\ op.args.heat_labels = "fraction"
    /\ Raised(count_elements(op.args.elem_values))
    /\ ret = ConflictError
    /\ canvas = <<<<NewAxes>>, <<NewAxes>>>>

\* the largest finite value among those plotted
LargestPlotted(vec) ==
    max({vec[s] : s \in {x \in DOMAIN vec : IsFinite(vec[x])}})

\* C9: the upper limit of the colour normalization is cbar_max only when
\* cbar_max is larger than the largest finite plotted value; a cbar_max that is
\* None or smaller is ignored and the limit is the largest plotted value
C9_CbarMaxIgnoredIfSmaller ==
    (HeatmapDone /\ ~Raised(ret) /\ ~op.args.log) =>
        LET largest == LargestPlotted(ret.val.elem_values)
            cbar_max == op.args.cbar_max
        IN  ret.val.norm.vmax =
                IF cbar_max # NoneNum /\ FLess(largest, cbar_max) THEN cbar_max ELSE largest

\* an element has a finite nonzero ratio
HasFiniteRatio(num, denom) ==
    \E s \in df_ptable_index : num[s] # Zero /\ denom[s] # Zero

\* C10: with normalize=True the heat values ptable_heatmap_ratio hands to the
\* renderer sum to 1 (over the values that are numbers) whenever some element has
\* a finite nonzero ratio, whichever other elements have an infinite or NaN ratio
C10_NormalizedSumsToOne ==
    (/\ RatioDone /\ op.args.normalize /\ ~Raised(ret)
     /\ HasFiniteRatio(count_elements(op.args.elem_values_num).val,
                       count_elements(op.args.elem_values_denom).val)) =>
        SumFrom(ret.val.elem_values, clean(ret.val.elem_values), 1) = One

\* C13: a tile has zero_color exactly when its value is 0, infty_color and the
\* label for infinity when it is +infinity, na_color and the label 0/0 when it
\* is NaN, and the colour of the colour map for every other value, negative
\* ones included
C13_TileColors ==
    ((HeatmapDone \/ RatioDone) /\ ~Raised(ret)) =>
        \A s \in df_ptable_index :
            LET v == ret.val.elem_values[s]
                color == ret.val.color[s]
            IN  /\ color = "zero_color" <=> v = Zero
                /\ v = PosInf =>
                      color = "infty_color" /\ ret.val.label[s].text = "$\\infty$"
                /\ IsNaN(v) =>
                      color = "na_color" /\ ret.val.label[s].text = "$0\\,/\\,0$"
                /\ (v # Zero /\ v # PosInf /\ ~IsNaN(v)) =>
                      color = "color_map(norm(heat_val))"

\* C14: a ptable_heatmap call with an explicit ax that returns has drawn its
\* tiles, element symbols and heat labels on that ax and returns it; every
\* other axes is as it was and the figure the call made holds nothing
C14_DrawsOnGivenAx ==
    [][(/\ pc = "idle" /\ pc' = "done" /\ op'.fn = "ptable_heatmap"
        /\ op'.args.ax # None /\ ~Raised(ret')) =>
          LET ax == op'.args.ax
              before == canvas[ax[1]][ax[2]]
              after == canvas'[ax[1]][ax[2]]
              n == Len(Symbols)
          IN  /\ ret'.val.ax = ax
              /\ after.tiles = before.tiles + n
              /\ after.symbols = before.symbols + n
              /\ after.heat_labels =
                    before.heat_labels + (IF op'.args.heat_labels # "None" THEN n ELSE 0)
              /\ \A other \in AllAxes(canvas) \ {ax} :
                    canvas'[other[1]][other[2]] = canvas[other[1]][other[2]]
              /\ \A f \in (Len(canvas) + 1)..Len(canvas') : canvas'[f] = <<>>]_vars

----------------------------------------------------------------------------
(* Claims about hist_elemental_prevalence, checked under SpecHist *)

HistDone == pc = "done" /\ op.fn = "hist_elemental_prevalence"

\* C5: the bars hist_elemental_prevalence shows are one per element, only
\* elements of count greater than 0, each as high as its count, no bar before a
\* higher one; without keep_top every such element has a bar, with keep_top the
\* first keep_top of them; for ["Fe2O3", "Bi2Te3"] the counted vector is nonzero
\* only for Fe, O, Bi and Te and these four bars are shown
C5_BarsOfNonZeroCounts ==
    (HistDone /\ ~Raised(ret)) =>
        LET counts == count_elements(op.args.formulas).val
            bars == ret.val.bars
            shown == {bars[i].symbol : i \in DOMAIN bars}
            positive == {s \in df_ptable_index : FLess(Zero, counts[s])}
            keep_top == op.args.keep_top
        IN  /\ Cardinality(shown) = Len(bars)
            /\ shown \subseteq positive
            /\ \A i \in DOMAIN bars : bars[i].height = counts[bars[i].symbol]
            /\ \A i, j \in DOMAIN bars : i < j => ~FLess(bars[i].height, bars[j].height)
            /\ keep_top = NoKeepTop => shown = positive
            /\ keep_top # NoKeepTop =>
                  /\ Len(bars) = Min2(keep_top, Cardinality(positive))
                  /\ \A s \in positive \ shown, i \in DOMAIN bars :
                        ~FLess(bars[i].height, counts[s])
            /\ canvas[ret.val.bars_ax[1]][ret.val.bars_ax[2]].bars >= Len(bars)
            /\ (op.args.formulas =
                    ListInput(<<<<"F", "e", "2", "O", "3">>, <<"B", "i", "2", "T", "e", "3">>>>)) =>
                  /\ positive = {Fe, O, Bi, Te}
                  /\ keep_top = NoKeepTop => Len(bars) = 4

C5_Witness ==
    /\ HistDone /\ ~Raised(ret)
    /\ op.args.formulas =
          ListInput(<<<<"F", "e", "2", "O", "3">>, <<"H", "2", "O">>>>)
    /\ op.args.keep_top = 2
    /\ ret.val.bars = <<[symbol |-> O, height |-> Fin(14, 15)],
                        [symbol |-> H, height |-> Fin(2, 3)]>>

\* C11: with bar_values="percent" the label of every bar is the count of its
\* element divided by the sum of the counts of all elements of the counted
\* vector, shown as a percentage, also when keep_top leaves some elements out
C11_PercentOfAllElements ==
    (HistDone /\ ~Raised(ret) /\ op.args.bar_values = "percent") =>
        LET counts == count_elements(op.args.formulas).val
            bars == ret.val.bars
        IN  \A i \in DOMAIN bars :
                ret.val.labels[i] = format_percent(FDiv(bars[i].height, sum(counts)))

----------------------------------------------------------------------------
(* Claims about ptable_heatmap_plotly, checked under SpecPlotly *)

PlotlyDone == pc = "done" /\ op.fn = "ptable_heatmap_plotly"

RECURSIVE PropertyLines(_, _, _)
\* one line "<br>label = value" for each item from item i on
PropertyLines(symbol, items, i) ==
    IF i > Len(items) THEN <<>>
    ELSE <<Br, Piece("label", <<>>, items[i].label), Eq, Piece("value", symbol, items[i].name)>>
         \o PropertyLines(symbol, items, i + 1)

\* the call's arguments are ones the function is documented to take
PlotlyArgsValid(a) ==
    /\ ~Raised(count_elements(a.elem_values))
    /\ a.colorscale \in {"None", "list"}
    /\ a.hover_data.given => a.hover_data.keys = df_ptable_index
    /\ \A i \in DOMAIN a.hover_cols.items : a.hover_cols.items[i].name \in Columns

\* C12: ptable_heatmap_plotly completes and the hover text of every element is
\* its name, then its hover_data entry when hover_data is given, then one line
\* "label = value" for each property of hover_cols, for a list of names (the
\* label is the name) and for a dict from names to labels alike; with
\* hover_cols=None there are no property lines
C12_HoverTexts ==
    (PlotlyDone /\ PlotlyArgsValid(op.args)) =>
        /\ ~Raised(ret)
        /\ \A s \in df_ptable_index :
              ret.val.hover_texts[s] =
                  <<Piece("name", s, "name")>>
                  \o (IF op.args.hover_data.given
                      THEN <<Br, Piece("hover_data", s, "")>> ELSE <<>>)
                  \o PropertyLines(s, op.args.hover_cols.items, 1)

====
